---- MODULE Spec2Model ----
(***************************************************************************)
(* Completion orchestration of the booking assistant backend:              *)
(*   services/openai_service.py  OpenAIService.get_completion,             *)
(*                               OpenAIService.get_completion_with_tools   *)
(*   services/tools.py           ToolExecutor, format_tool_response        *)
(*   main_db.py                  send_message (dispatch, stored messages)  *)
(*                                                                         *)
(* Text is modelled as a sequence of tokens, so that concatenation is \o   *)
(* and "" is << >>.  uuid4() is modelled as a key that is not yet in the   *)
(* store and that the language model cannot name before it has been        *)
(* generated; datetime.utcnow() is a counter that ticks on every read.     *)
(***************************************************************************)
EXTENDS Integers, Sequences, FiniteSets, TLC

\* ---------------------------------------------------------------- bounds
MaxHist == 2
MaxCalls == 2
MaxTotalCalls == 3
MaxPasses == 2
MaxDocs == 4
MaxContextLength == 8

\* ------------------------------------------------------------- vocabulary
Roles == {"user", "assistant", "system"}

SYSTEM_PROMPT == <<"SYSTEM_PROMPT">>

get_system_prompt(prompt_type) == SYSTEM_PROMPT

Msg(r, c) == [role |-> r, content |-> c]

\* one content per role keeps the histories small; the contents differ per role
ContentOf(r) == IF r = "user" THEN <<"question">>
                ELSE IF r = "assistant" THEN <<"reply">> ELSE <<"custom system">>

SeqsUpTo(S, n) == UNION {[1..k -> S] : k \in 0..n}

Histories == SeqsUpTo({Msg(r, ContentOf(r)) : r \in Roles}, MaxHist)

\* the conversation of a first turn: the user's message
UserTurn == <<Msg("user", ContentOf("user"))>>

NoSuchId == 0

ToolNames == {"create_booking", "update_booking", "get_booking"}

CreateRequired == {"service_type", "date", "time", "customer_name", "customer_email"}
CreateOptional == {"duration_minutes", "notes"}
UpdateFields == <<"date", "time", "duration_minutes", "status", "notes">>
GetParams == {"booking_id", "customer_email", "date", "status"}

Range(s) == {s[i] : i \in 1..Len(s)}

\* AVAILABLE_TOOLS: the "required" list of a tool's parameter schema
required_params(tool_name) ==
    CASE tool_name = "create_booking" -> CreateRequired
      [] tool_name = "update_booking" -> {"booking_id"}
      [] tool_name = "get_booking" -> {}

\* AVAILABLE_TOOLS: the "properties" of a tool's parameter schema
declared_params(tool_name) ==
    CASE tool_name = "create_booking" -> CreateRequired \cup CreateOptional
      [] tool_name = "update_booking" -> {"booking_id"} \cup Range(UpdateFields)
      [] tool_name = "get_booking" -> GetParams

Min(a, b) == IF a < b THEN a ELSE b

\* ------------------------------------------------ services/tools.py
\* uuid.uuid4(): a key that is not in the store (keys are handed out 1, 2, ...)
uuid4(db) == Cardinality(DOMAIN db) + 1

\* the id "" (falsy in `if booking_id:`)
EmptyId == -1

\* a store assignment that drops the other bookings
Put_alone(db, k, v) == [x \in {k} |-> v]

Put(db, k, v) == [x \in DOMAIN db \cup {k} |-> IF x = k THEN v ELSE db[x]]

ArgOr(args, k, default) == IF k \in DOMAIN args THEN args[k] ELSE default

\* str() of a number
str(n) == ToString(n)

RECURSIVE Join(_, _)
Join(parts, sep) ==
    IF parts = << >> THEN << >>
    ELSE IF Len(parts) = 1 THEN <<parts[1]>>
    ELSE <<parts[1], sep>> \o Join(Tail(parts), sep)

\* a tool function's outcome: it returns a result, or raises
Returned(r, db, clock) == [raised |-> FALSE, result |-> r, db |-> db, clock |-> clock]
\* a tool function that raises after it has stored a booking
Raised_after_store(db, clock) ==
    [raised |-> TRUE,
     db |-> Put(db, uuid4(db), [booking_id |-> uuid4(db), service_type |-> "massage",
                                date |-> "2024-06-01", time |-> "09:00",
                                duration_minutes |-> 60, customer_name |-> "Ann",
                                customer_email |-> "ann@x.com", notes |-> "",
                                status |-> "confirmed", created_at |-> clock + 1,
                                updated_at |-> clock + 2]),
     clock |-> clock + 2]

Raised(db, clock) == [raised |-> TRUE, db |-> db, clock |-> clock]

\* create_booking that stores the defaults whatever the optional arguments are
create_booking_defaults_only(args, db, clock) ==
    IF ~(CreateRequired \subseteq DOMAIN args /\ DOMAIN args \subseteq CreateRequired \cup CreateOptional)
    THEN Raised(db, clock)
    ELSE
    LET booking_id == uuid4(db)
        booking == [booking_id |-> booking_id,
                    service_type |-> args["service_type"],
                    date |-> args["date"],
                    time |-> args["time"],
                    duration_minutes |-> 60,
                    customer_name |-> args["customer_name"],
                    customer_email |-> args["customer_email"],
                    notes |-> "",
                    status |-> "confirmed",
                    created_at |-> clock + 1,
                    updated_at |-> clock + 2]
    IN  Returned([success |-> TRUE,
                  booking_id |-> booking_id,
                  message |-> <<"Booking created successfully for ", args["customer_name"],
                                " on ", args["date"], " at ", args["time"]>>,
                  booking |-> booking],
                 Put(db, booking_id, booking), clock + 2)

create_booking(args, db, clock) ==
    IF ~(CreateRequired \subseteq DOMAIN args /\ DOMAIN args \subseteq CreateRequired \cup CreateOptional)
    THEN Raised(db, clock)   \* TypeError binding **arguments
    ELSE
    LET booking_id == uuid4(db)
        booking == [booking_id |-> booking_id,
                    service_type |-> args["service_type"],
                    date |-> args["date"],
                    time |-> args["time"],
                    duration_minutes |-> ArgOr(args, "duration_minutes", 60),
                    customer_name |-> args["customer_name"],
                    customer_email |-> args["customer_email"],
                    notes |-> ArgOr(args, "notes", ""),
                    status |-> "confirmed",
                    created_at |-> clock + 1,
                    updated_at |-> clock + 2]
    IN  Returned([success |-> TRUE,
                  booking_id |-> booking_id,
                  message |-> <<"Booking created successfully for ", args["customer_name"],
                                " on ", args["date"], " at ", args["time"]>>,
                  booking |-> booking],
                 Put(db, booking_id, booking), clock + 2)

\* a JSON null among the arguments
None == "None"

\* v is None
is_None(v) == ToString(v) = ToString(None)

\* the loop of update_booking without the test "is not None"
RECURSIVE ApplyFields_sets_None(_, _, _)
ApplyFields_sets_None(booking, kwargs, fs) ==
    IF fs = << >> THEN <<booking, << >> >>
    ELSE LET field == Head(fs)
             rest == IF field \in DOMAIN kwargs
                     THEN ApplyFields_sets_None([booking EXCEPT ![field] = kwargs[field]],
                                                kwargs, Tail(fs))
                     ELSE ApplyFields_sets_None(booking, kwargs, Tail(fs))
         IN  IF field \in DOMAIN kwargs THEN <<rest[1], <<field>> \o rest[2]>> ELSE rest

\* the loop of update_booking: <<booking, updated_fields>> after the fields in fs
RECURSIVE ApplyFields(_, _, _)
ApplyFields(booking, kwargs, fs) ==
    IF fs = << >> THEN <<booking, << >> >>
    ELSE LET field == Head(fs)
             given == field \in DOMAIN kwargs /\ ~is_None(kwargs[field])
             rest == IF given
                     THEN ApplyFields([booking EXCEPT ![field] = kwargs[field]], kwargs, Tail(fs))
                     ELSE ApplyFields(booking, kwargs, Tail(fs))
         IN  IF given THEN <<rest[1], <<field>> \o rest[2]>> ELSE rest

\* update_booking that stores a booking under an id it does not find
update_booking_upsert(args, db, clock) ==
    IF "booking_id" \notin DOMAIN args
    THEN Raised(db, clock)
    ELSE Returned([success |-> FALSE,
                   error |-> <<"Booking ", str(args["booking_id"]), " not found">>],
                  Put(db, args["booking_id"], [booking_id |-> args["booking_id"]]), clock)

update_booking(args, db, clock) ==
    IF "booking_id" \notin DOMAIN args
    THEN Raised(db, clock)   \* TypeError: missing positional argument
    ELSE
    LET booking_id == args["booking_id"] IN
    IF booking_id \notin DOMAIN db
    THEN Returned([success |-> FALSE, error |-> <<"Booking ", str(booking_id), " not found">>], db, clock)
    ELSE
    LET applied == ApplyFields(db[booking_id], args, UpdateFields)
        booking == [applied[1] EXCEPT !["updated_at"] = clock + 1]
    IN  Returned([success |-> TRUE,
                  booking_id |-> booking_id,
                  message |-> <<"Booking updated successfully. Updated fields: ">>
                              \o Join(applied[2], ", "),
                  booking |-> booking],
                 Put(db, booking_id, booking), clock + 1)

\* "if customer_email and ...": the argument k is there, and is not None and not ""
Truthy(args, k) == k \in DOMAIN args /\ ~is_None(args[k]) /\ args[k] # ""

RECURSIVE FilterBookings(_, _, _)
\* the filter loop of get_booking over the keys 1..n in insertion order
FilterBookings(db, args, n) ==
    IF n = 0 THEN << >>
    ELSE LET booking == db[n]
             match == /\ (Truthy(args, "customer_email")
                            => booking["customer_email"] = args["customer_email"])
                      /\ (Truthy(args, "date") => booking["date"] = args["date"])
                      /\ (ArgOr(args, "status", "all") # "all"
                            => booking["status"] = args["status"])
         IN  FilterBookings(db, args, n - 1) \o (IF match THEN <<booking>> ELSE << >>)

SampleArgs == [service_type |-> "personal_training", date |-> "sample_date", time |-> "10:00",
               customer_name |-> "John Doe", customer_email |-> "john@example.com",
               notes |-> "First session"]

\* get_booking_binds of a get_booking that takes **kwargs
get_booking_binds_kwargs(args) == TRUE

\* binding **arguments to the parameters of get_booking (lines 190-193)
get_booking_binds(args) == DOMAIN args \subseteq GetParams

\* get_booking that goes through the filters also when booking_id is given
get_booking_filters_first(args, db, clock) ==
    IF ~get_booking_binds(args)
    THEN Raised(db, clock)
    ELSE Returned([success |-> TRUE,
                   count |-> Len(FilterBookings(db, args, Cardinality(DOMAIN db))),
                   bookings |-> FilterBookings(db, args, Cardinality(DOMAIN db))], db, clock)

get_booking(args, db, clock) ==
    IF ~get_booking_binds(args)
    THEN Raised(db, clock)   \* TypeError: unexpected keyword argument
    ELSE IF "booking_id" \in DOMAIN args /\ args["booking_id"] # EmptyId
    THEN IF args["booking_id"] \in DOMAIN db
         THEN Returned([success |-> TRUE, booking |-> db[args["booking_id"]]], db, clock)
         ELSE Returned([success |-> FALSE,
                        error |-> <<"Booking ", str(args["booking_id"]), " not found">>], db, clock)
    ELSE
    LET filtered_bookings == FilterBookings(db, args, Cardinality(DOMAIN db)) IN
    IF filtered_bookings = << >> /\ DOMAIN db = {}
    THEN LET made == create_booking(SampleArgs, db, clock)
         IN  Returned([success |-> TRUE, count |-> 1, bookings |-> <<made.result.booking>>],
                      made.db, made.clock)
    ELSE Returned([success |-> TRUE, count |-> Len(filtered_bookings),
                   bookings |-> filtered_bookings], db, clock)

tool_map(tool_name, args, db, clock) ==
    CASE tool_name = "create_booking" -> create_booking(args, db, clock)
      [] tool_name = "update_booking" -> update_booking(args, db, clock)
      [] tool_name = "get_booking" -> get_booking(args, db, clock)

\* execute_tool without the try/except of lines 257-260
execute_tool_uncaught(tool_name, args, db, clock) ==
    IF tool_name \notin ToolNames
    THEN Returned([error |-> <<"Unknown tool: ", tool_name>>], db, clock)
    ELSE tool_map(tool_name, args, db, clock)

execute_tool(tool_name, args, db, clock) ==
    IF tool_name \notin ToolNames
    THEN Returned([error |-> <<"Unknown tool: ", tool_name>>], db, clock)
    ELSE LET out == tool_map(tool_name, args, db, clock)
         IN  IF out.raised
             THEN Returned([error |-> <<"Tool execution failed: ", "TypeError">>], out.db, out.clock)
             ELSE out

\* json.dumps: the serialisation of a value
json_dumps(v) == [json |-> v]

RECURSIVE BookingLines(_)
BookingLines(bookings) ==
    IF bookings = << >> THEN << >>
    ELSE LET booking == Head(bookings)
         IN  <<"\n* ", booking["customer_name"], " - ", booking["service_type"], " on ",
               booking["date"], " at ", booking["time"], " (Status: ", booking["status"], ")">>
             \o BookingLines(Tail(bookings))

format_tool_response(tool_name, result) ==
    IF "error" \in DOMAIN result
    THEN <<"[Tool Error: ">> \o result["error"] \o <<"]">>
    ELSE IF tool_name = "create_booking" /\ result["success"]
    THEN LET booking == result["booking"]
         IN  <<"[Booking Created Successfully]",
               "\nBooking ID: ", str(booking["booking_id"]),
               "\nCustomer: ", booking["customer_name"],
               "\nService: ", booking["service_type"],
               "\nDate/Time: ", booking["date"], " at ", booking["time"],
               "\nDuration: ", str(booking["duration_minutes"]), " minutes">>
    ELSE IF tool_name = "update_booking" /\ result["success"]
    THEN <<"[Booking Updated Successfully]", "\n">> \o result["message"]
    ELSE IF tool_name = "get_booking" /\ result["success"] /\ "booking" \in DOMAIN result
    THEN LET booking == result["booking"]
         IN  <<"[Booking Found]",
               "\nBooking ID: ", str(booking["booking_id"]),
               "\nCustomer: ", booking["customer_name"],
               "\nService: ", booking["service_type"],
               "\nDate/Time: ", booking["date"], " at ", booking["time"],
               "\nStatus: ", booking["status"]>>
    ELSE IF tool_name = "get_booking" /\ result["success"] /\ "bookings" \in DOMAIN result
    THEN IF result["count"] = 0
         THEN <<"[No bookings found matching the criteria]">>
         ELSE <<"[Found ", str(result["count"]), " booking(s)]", "\n">>
              \o BookingLines(result["bookings"])
    ELSE <<"[Tool Result: ", ToString(json_dumps(result)), "]">>

\* ------------------------------------------------ the language model and the vector store
CallArgs == [service_type |-> "massage", date |-> "2024-06-01", time |-> "09:00",
             customer_name |-> "Ann", customer_email |-> "ann@x.com"]

EmptyArgs == [k \in {} |-> ""]

Without(args, k) == [x \in DOMAIN args \ {k} |-> args[x]]

\* the ids the language model can name: the ones already stored, and one that never is
NameableIds(db) == DOMAIN db \cup {NoSuchId}

\* the requests <<name, arguments>> the language model may emit against the store db
ToolRequests(db) ==
    {<<"create_booking", CallArgs>>,
     <<"create_booking", Without(CallArgs, "customer_email")>>,
     <<"get_booking", EmptyArgs>>,
     <<"get_booking", [foo |-> "bar"]>>,
     <<"delete_booking", EmptyArgs>>}
    \cup {<<"update_booking", [booking_id |-> b, status |-> "cancelled"]>> : b \in NameableIds(db)}
    \cup {<<"update_booking", [booking_id |-> b, foo |-> "bar"]>> : b \in DOMAIN db}
    \cup {<<"update_booking", [booking_id |-> b, date |-> "2024-07-02",
                              duration_minutes |-> 90, notes |-> None]>> : b \in DOMAIN db}

\* arguments with the entry k |-> v added
With(args, k, v) == [x \in DOMAIN args \cup {k} |-> IF x = k THEN v ELSE args[x]]

\* the requests of a caller of execute_tool against the store db: the requests of the
\* language model, the optional arguments of create_booking, the filters of
\* get_booking with and without a booking_id, and a status outside the catalog
DirectRequests(db) ==
    ToolRequests(db)
    \cup {<<"create_booking", With(With(CallArgs, "duration_minutes", 90), "notes", "bring a mat")>>,
          <<"get_booking", [customer_email |-> "ann@x.com"]>>,
          <<"get_booking", [status |-> "cancelled"]>>,
          <<"get_booking", [status |-> "all", date |-> "2024-06-01"]>>,
          <<"get_booking", [booking_id |-> EmptyId, status |-> "confirmed"]>>}
    \cup {<<"get_booking", [booking_id |-> b]>> : b \in NameableIds(db)}
    \cup {<<"get_booking", [booking_id |-> b, customer_email |-> "nobody@x.com",
                           status |-> "cancelled"]>> : b \in NameableIds(db)}
    \cup {<<"update_booking", [booking_id |-> b, status |-> "pending"]>> : b \in DOMAIN db}

\* tool_call.id is unique within one response: the position of the call
WithIds(reqs) ==
    [i \in 1..Len(reqs) |-> [id |-> i, name |-> reqs[i][1], arguments |-> reqs[i][2]]]

\* tool requests that leave the store as it is
FailingRequests ==
    {<<"delete_booking", EmptyArgs>>,
     <<"update_booking", [booking_id |-> NoSuchId, status |-> "cancelled"]>>}

ToolCallLists(requests, n) == {WithIds(reqs) : reqs \in SeqsUpTo(requests, n)}

FirstContents == {<< >>, <<"Let me check.">>}
SecondContents == {<<"Here is the final answer.">>}

\* ------------------------------------------------ services/pinecone_service.py
\* a chunk of the index: the title and the text of its metadata
Doc(title, text) == [title |-> title, text |-> text]

Titles == {"", "T"}
Texts == {"", "a", "abc"}
Chunks == {Doc(title, text) : title \in Titles, text \in Texts}

\* the process environment and the two backing services at the time of a retrieval;
\* matches are the chunks of the index in the order the index ranks them for the
\* query, best score first
Healthy(matches) ==
    [PINECONE_API_KEY |-> TRUE, OPENAI_API_KEY |-> TRUE, index_connects |-> TRUE,
     embedding_ok |-> TRUE, query_ok |-> TRUE, matches |-> matches]

\* the ways a retrieval over env can fail
Failures(env) ==
    {[env EXCEPT !.index_connects = FALSE],
     [env EXCEPT !.embedding_ok = FALSE],
     [env EXCEPT !.query_ok = FALSE]}

Unconfigured(env) ==
    {[env EXCEPT !.PINECONE_API_KEY = FALSE],
     [env EXCEPT !.OPENAI_API_KEY = FALSE]}

\* the environments of a turn: the index holds a chunk, or none, or a part is down
PassEnvironments ==
    LET found == Healthy(<<Doc("T", "abc")>>)
    IN  {found, Healthy(<< >>)} \cup Failures(found) \cup Unconfigured(found)

\* one environment for each result of a turn's retrieval: a context, none, no service
BasicEnvironments ==
    LET found == Healthy(<<Doc("T", "abc")>>)
    IN  {found, Healthy(<< >>), [found EXCEPT !.PINECONE_API_KEY = FALSE]}

\* the environments of a direct call of get_context_for_prompt over the ranking matches
RetrievalEnvironments(matches) ==
    {Healthy(matches)} \cup (IF Len(matches) <= 1 THEN Failures(Healthy(matches)) ELSE {})

\* line 103: max_context_length: int = 2000
DEFAULT_MAX_CONTEXT_LENGTH == 2000

\* lines 14-41 and 148-157: the service object, << >> for None
get_pinecone_service(env) ==
    IF env.PINECONE_API_KEY /\ env.OPENAI_API_KEY
    THEN <<[index |-> env.index_connects]>>
    ELSE << >>

\* lines 43-54: the embedding, << >> when the embeddings request fails
generate_embedding(env, text) ==
    IF env.embedding_ok THEN <<"embedding">> ELSE << >>

\* search_knowledge_base without the test of the embedding
search_knowledge_base_any_embedding(self, env, query, top_k) ==
    IF ~self.index THEN << >>
    ELSE IF ~env.query_ok THEN << >>
    ELSE SubSeq(env.matches, 1, Min(top_k, Len(env.matches)))

\* lines 56-101
search_knowledge_base(self, env, query, top_k) ==
    IF ~self.index THEN << >>
    ELSE IF generate_embedding(env, query) = << >> THEN << >>
    ELSE IF ~env.query_ok THEN << >>
    ELSE SubSeq(env.matches, 1, Min(top_k, Len(env.matches)))

\* lines 123-130
doc_text(doc) ==
    IF doc.title # "" THEN "[" \o doc.title \o "]\n" \o doc.text ELSE doc.text

\* the loop of lines 122-137 with continue in the place of break
RECURSIVE context_parts_continue(_, _, _, _)
context_parts_continue(documents, max_context_length, parts, total_length) ==
    IF documents = << >> THEN parts
    ELSE IF total_length + Len(doc_text(Head(documents))) > max_context_length
    THEN context_parts_continue(Tail(documents), max_context_length, parts, total_length)
    ELSE context_parts_continue(Tail(documents), max_context_length,
                                Append(parts, doc_text(Head(documents))),
                                total_length + Len(doc_text(Head(documents))))

\* the loop of lines 122-137, entered with parts = [] and total_length = 0
RECURSIVE context_parts(_, _, _, _)
context_parts(documents, max_context_length, parts, total_length) ==
    IF documents = << >> THEN parts
    ELSE IF total_length + Len(doc_text(Head(documents))) > max_context_length
    THEN parts
    ELSE context_parts(Tail(documents), max_context_length,
                       Append(parts, doc_text(Head(documents))),
                       total_length + Len(doc_text(Head(documents))))

\* sep.join(parts) over strings
RECURSIVE JoinStrings(_, _)
JoinStrings(parts, sep) ==
    IF parts = << >> THEN ""
    ELSE IF Len(parts) = 1 THEN parts[1]
    ELSE parts[1] \o sep \o JoinStrings(Tail(parts), sep)

\* lines 139-142
context_text(parts) ==
    IF parts # << >>
    THEN "### Relevant Business Information:\n" \o JoinStrings(parts, "\n\n")
    ELSE ""

\* lines 103-142, with what the call went through
get_context_for_prompt(self, env, query, max_context_length) ==
    LET documents == search_knowledge_base(self, env, query, 3)
        parts == context_parts(documents, max_context_length, << >>, 0)
    IN  [env |-> env,
         called |-> TRUE,
         max_context_length |-> max_context_length,
         documents |-> documents,
         context_parts |-> parts,
         context |-> IF documents = << >> THEN "" ELSE context_text(parts)]

\* get_context_for_prompt was not called
NotCalled(env) ==
    [env |-> env, called |-> FALSE, max_context_length |-> DEFAULT_MAX_CONTEXT_LENGTH,
     documents |-> << >>, context_parts |-> << >>, context |-> ""]

\* a string as the text of a message: the empty string is the empty text
Text(string) == IF string = "" THEN << >> ELSE <<string>>

\* ------------------------------------------------ services/openai_service.py
VARIABLES bookings_db, clock,
          pc, messages, history0, use_tools, use_rag,
          rag_context, enhanced_messages,
          content, tool_calls, idx, tool_results, full_response, formatted_messages,
          returned, raised,
          calls, responses, events, rag_queries, retrieval, other_pass, last_exec, db_at_start,
          passes, total_calls, stored_messages, messages_before, send_pc

vars == <<bookings_db, clock, pc, messages, history0, use_tools, use_rag,
          rag_context, enhanced_messages,
          content, tool_calls, idx, tool_results, full_response, formatted_messages,
          returned, raised,
          calls, responses, events, rag_queries, retrieval, other_pass, last_exec, db_at_start,
          passes, total_calls, stored_messages, messages_before, send_pc>>

store == <<bookings_db, clock>>
persistence == <<stored_messages, messages_before, send_pc>>
locals == <<content, tool_calls, idx, tool_results, full_response, formatted_messages>>

\* get_completion_messages without the test of messages[0].role
get_completion_messages_always_prepend(msgs, include_system_prompt) ==
    (IF include_system_prompt
     THEN <<Msg("system", get_system_prompt("default"))>>
     ELSE << >>)
    \o [i \in 1..Len(msgs) |-> Msg(msgs[i].role, msgs[i].content)]

\* lines 30-43 of get_completion: the message list sent in the request
get_completion_messages(msgs, include_system_prompt) ==
    (IF include_system_prompt /\ (msgs = << >> \/ msgs[1].role # "system")
     THEN <<Msg("system", get_system_prompt("default"))>>
     ELSE << >>)
    \o [i \in 1..Len(msgs) |-> Msg(msgs[i].role, msgs[i].content)]

\* user_messages without the test of the role
user_messages_any_role(msgs) == msgs

\* [msg for msg in messages if msg.role == "user"]
user_messages(msgs) == SelectSeq(msgs, LAMBDA m : m.role = "user")

RECURSIVE JoinTexts(_, _)
JoinTexts(texts, sep) ==
    IF texts = << >> THEN << >>
    ELSE IF Len(texts) = 1 THEN texts[1]
    ELSE texts[1] \o <<sep>> \o JoinTexts(Tail(texts), sep)

\* the assistant message with the tool calls in reverse order
assistant_tool_calls_message_reversed(c, tcs) ==
    [role |-> "assistant",
     content |-> c,
     tool_calls |-> [i \in 1..Len(tcs) |->
                        [id |-> tcs[Len(tcs) + 1 - i].id,
                         type |-> "function",
                         function |-> [name |-> tcs[Len(tcs) + 1 - i].name,
                                       arguments |->
                                           json_dumps(tcs[Len(tcs) + 1 - i].arguments)]]]]

\* lines 152-166: the assistant message that carries the tool calls
assistant_tool_calls_message(c, tcs) ==
    [role |-> "assistant",
     content |-> c,
     tool_calls |-> [i \in 1..Len(tcs) |->
                        [id |-> tcs[i].id,
                         type |-> "function",
                         function |-> [name |-> tcs[i].name,
                                       arguments |-> json_dumps(tcs[i].arguments)]]]]

Init ==
    /\ bookings_db = EmptyArgs
    /\ clock = 0
    /\ pc = "START"
    /\ messages = << >>
    /\ history0 = << >>
    /\ use_tools = TRUE
    /\ use_rag = FALSE
    /\ rag_context = << >>
    /\ enhanced_messages = << >>
    /\ content = << >>
    /\ tool_calls = << >>
    /\ idx = 1
    /\ tool_results = << >>
    /\ full_response = << >>
    /\ formatted_messages = << >>
    /\ returned = << >>
    /\ raised = FALSE
    /\ calls = << >>
    /\ events = << >>
    /\ rag_queries = << >>
    /\ retrieval = << >>
    /\ other_pass = << >>
    /\ stored_messages = << >>
    /\ messages_before = << >>
    /\ send_pc = "IDLE"
    /\ last_exec = << >>
    /\ db_at_start = EmptyArgs
    /\ responses = << >>
    /\ passes = 0
    /\ total_calls = 0

\* main_db.send_message lines 200-212: one turn over the conversation's messages
RunTurn(history, ut, ur) ==
    /\ pc = "START"
    /\ passes < MaxPasses
    /\ passes' = passes + 1
    /\ messages' = history
    /\ history0' = history
    /\ use_tools' = ut
    /\ use_rag' = ur
    /\ rag_context' = << >>
    /\ enhanced_messages' = << >>
    /\ content' = << >>
    /\ tool_calls' = << >>
    /\ idx' = 1
    /\ tool_results' = << >>
    /\ full_response' = << >>
    /\ formatted_messages' = << >>
    /\ returned' = << >>
    /\ raised' = FALSE
    /\ calls' = << >>
    /\ events' = << >>
    /\ rag_queries' = << >>
    /\ retrieval' = << >>
    /\ last_exec' = << >>
    /\ db_at_start' = bookings_db
    /\ responses' = << >>
    /\ pc' = IF ut THEN "AUGMENT" ELSE "FIRST_CALL"
    /\ UNCHANGED <<store, other_pass, persistence, total_calls>>

\* the merged content without the "User Question: " label
augmented_content_unlabelled(context, original_content) ==
    context \o <<"\n\n">> \o original_content

\* line 108: f"{rag_context}\n\nUser Question: {original_content}"
augmented_content(context, original_content) ==
    context \o <<"\n\nUser Question: ">> \o original_content

\* get_completion_with_tools lines 91-108.  messages.copy() is a shallow copy: the
\* Message objects of enhanced_messages are the caller's objects.
Augment(env) ==
    /\ pc = "AUGMENT"
    /\ LET entered == use_rag /\ messages # << >>
           pinecone == get_pinecone_service(env)
           consulted == entered /\ pinecone # << >> /\ user_messages(messages) # << >>
           latest_query == user_messages(messages)[Len(user_messages(messages))].content
           got == IF consulted
                  THEN get_context_for_prompt(pinecone[1], env, latest_query,
                                              DEFAULT_MAX_CONTEXT_LENGTH)
                  ELSE NotCalled(env)
           ctx == Text(got.context)
           n == Len(messages)
           merged == IF ctx # << >> /\ n > 0 /\ messages[n].role = "user"
                     THEN [messages EXCEPT ![n].content = augmented_content(ctx, @)]
                     ELSE messages
       IN  /\ rag_context' = ctx
           /\ rag_queries' = IF consulted THEN Append(rag_queries, latest_query) ELSE rag_queries
           /\ retrieval' = IF entered THEN <<got>> ELSE << >>
           /\ events' = IF consulted THEN Append(events, "retrieve") ELSE events
           /\ enhanced_messages' = merged
           /\ messages' = merged
    /\ pc' = "FIRST_CALL"
    /\ UNCHANGED <<store, history0, use_tools, use_rag, locals, returned, raised, calls,
                   other_pass, persistence, last_exec, db_at_start, responses, passes, total_calls>>

\* PineconeService.get_context_for_prompt called on its own, outside a turn
GetContextForPrompt(env, query, max_context_length) ==
    /\ pc = "START"
    /\ get_pinecone_service(env) # << >>
    /\ retrieval' = <<get_context_for_prompt(get_pinecone_service(env)[1], env, query,
                                              max_context_length)>>
    /\ UNCHANGED <<store, pc, messages, history0, use_tools, use_rag, rag_context,
                   enhanced_messages, locals, returned, raised, calls, responses, events,
                   rag_queries, other_pass, persistence, last_exec, db_at_start, passes, total_calls>>

\* a response of the language model, or its failure
Response(c, tcs) == [ok |-> TRUE, content |-> c, tool_calls |-> tcs]
Failure == [ok |-> FALSE, content |-> << >>, tool_calls |-> << >>]

\* FirstRequest with the tool catalog attached whatever use_tools says
FirstRequest_always_tools ==
    [messages |-> get_completion_messages(IF use_tools THEN enhanced_messages ELSE messages, TRUE),
     tools |-> TRUE]

\* the request of model call #1 (get_completion lines 30-63)
FirstRequest ==
    [messages |-> get_completion_messages(IF use_tools THEN enhanced_messages ELSE messages, TRUE),
     tools |-> use_tools]

\* no_tool_calls that never takes the early return
no_tool_calls_never(tcs) == FALSE

\* line 113: `if not tool_calls`
no_tool_calls(tcs) == tcs = << >>

\* get_completion returns (lines 65-78), then lines 113-118 of get_completion_with_tools
\* or line 209 of send_message
FirstCallReturns(c, tcs) ==
    /\ pc = "FIRST_CALL"
    /\ use_tools \/ tcs = << >>
    /\ total_calls + Len(tcs) <= MaxTotalCalls
    /\ total_calls' = total_calls + Len(tcs)
    /\ calls' = Append(calls, FirstRequest)
    /\ responses' = Append(responses, Response(c, tcs))
    /\ events' = Append(events, "model")
    /\ IF ~use_tools \/ no_tool_calls(tcs)
       THEN /\ returned' = <<c>>
            /\ pc' = "DONE"
            /\ UNCHANGED locals
       ELSE /\ content' = c
            /\ tool_calls' = tcs
            /\ full_response' = c
            /\ tool_results' = << >>
            /\ idx' = 1
            /\ pc' = IF tcs = << >> THEN "RECOMPOSE" ELSE "TOOLS_EXECUTING"
            /\ UNCHANGED <<formatted_messages, returned>>
    /\ UNCHANGED <<store, messages, history0, use_tools, use_rag, rag_context, enhanced_messages,
                   raised, rag_queries, retrieval, other_pass, persistence, last_exec, db_at_start, passes>>

\* get_completion lines 80-81: the client raised, or a tool call's arguments did not
\* parse; the exception is raised again
FirstCallFails ==
    /\ pc = "FIRST_CALL"
    /\ calls' = Append(calls, FirstRequest)
    /\ responses' = Append(responses, Failure)
    /\ events' = Append(events, "model")
    /\ raised' = TRUE
    /\ pc' = "FAILED"
    /\ UNCHANGED <<store, messages, history0, use_tools, use_rag, rag_context, enhanced_messages,
                   locals, returned, rag_queries, retrieval, other_pass, persistence, last_exec, db_at_start, passes, total_calls>>

\* the loops over the tool calls taken from the last call to the first
requested_tool_last_first(tcs, i) == tcs[Len(tcs) + 1 - i]

\* "for tool_call in tool_calls" (lines 120 and 169): the i-th call of the response
requested_tool(tcs, i) == tcs[i]

Executed(tc, out) ==
    <<[name |-> tc.name, arguments |-> tc.arguments, out |-> out, db_before |-> bookings_db]>>

\* one iteration of the loop of lines 120-129
ExecuteRequestedTool ==
    /\ pc = "TOOLS_EXECUTING"
    /\ LET tc == requested_tool(tool_calls, idx)
           out == execute_tool(tc.name, tc.arguments, bookings_db, clock)
       IN  /\ bookings_db' = out.db
           /\ clock' = out.clock
           /\ last_exec' = Executed(tc, out)
           /\ events' = Append(events, "tool")
           /\ IF out.raised
              THEN /\ raised' = TRUE
                   /\ pc' = "FAILED"
                   /\ UNCHANGED <<tool_results, idx>>
              ELSE /\ tool_results' = Append(tool_results, format_tool_response(tc.name, out.result))
                   /\ idx' = IF idx = Len(tool_calls) THEN 1 ELSE idx + 1
                   /\ pc' = IF idx = Len(tool_calls) THEN "RECOMPOSE" ELSE "TOOLS_EXECUTING"
                   /\ UNCHANGED raised
    /\ UNCHANGED <<messages, history0, use_tools, use_rag, rag_context, enhanced_messages,
                   content, tool_calls, full_response, formatted_messages, returned, calls,
                   rag_queries, retrieval, other_pass, persistence, db_at_start, responses, passes, total_calls>>

\* lines 131-166: the provisional combined text, and the message list up to the
\* assistant message
Recompose ==
    /\ pc = "RECOMPOSE"
    /\ full_response' = (IF full_response # << >> THEN full_response \o <<"\n\n">> ELSE << >>)
                        \o JoinTexts(tool_results, "\n")
    /\ formatted_messages' =
           <<Msg("system", get_system_prompt("default"))>>
           \o [i \in 1..Len(messages) |-> Msg(messages[i].role, messages[i].content)]
           \o <<assistant_tool_calls_message(content, tool_calls)>>
    /\ idx' = 1
    /\ pc' = IF tool_calls = << >> THEN "SECOND_CALL" ELSE "TOOL_MESSAGES"
    /\ UNCHANGED <<store, messages, history0, use_tools, use_rag, rag_context, enhanced_messages,
                   content, tool_calls, tool_results, returned, raised, calls, events,
                   rag_queries, retrieval, other_pass, persistence, last_exec, db_at_start, responses, passes, total_calls>>

\* one iteration of the loop of lines 169-177, which calls execute_tool again
AppendToolMessage ==
    /\ pc = "TOOL_MESSAGES"
    /\ LET tc == requested_tool(tool_calls, idx)
           out == execute_tool(tc.name, tc.arguments, bookings_db, clock)
       IN  /\ bookings_db' = out.db
           /\ clock' = out.clock
           /\ last_exec' = Executed(tc, out)
           /\ events' = Append(events, "tool")
           /\ IF out.raised
              THEN /\ raised' = TRUE
                   /\ pc' = "FAILED"
                   /\ UNCHANGED <<formatted_messages, idx>>
              ELSE /\ formatted_messages' =
                          Append(formatted_messages,
                                 [role |-> "tool",
                                  content |-> json_dumps(out.result),
                                  tool_call_id |-> tc.id])
                   /\ idx' = IF idx = Len(tool_calls) THEN 1 ELSE idx + 1
                   /\ pc' = IF idx = Len(tool_calls) THEN "SECOND_CALL" ELSE "TOOL_MESSAGES"
                   /\ UNCHANGED raised
    /\ UNCHANGED <<messages, history0, use_tools, use_rag, rag_context, enhanced_messages,
                   content, tool_calls, tool_results, full_response, returned, calls,
                   rag_queries, retrieval, other_pass, persistence, db_at_start, responses, passes, total_calls>>

\* SecondRequest with the tool catalog attached
SecondRequest_with_tools == [messages |-> formatted_messages, tools |-> TRUE]

\* the request of model call #2 (lines 180-185): no tools argument
SecondRequest == [messages |-> formatted_messages, tools |-> FALSE]

\* second_call_return_value that returns the provisional combined text
second_call_return_value_provisional(response_content, provisional) == provisional

\* line 187: the value returned after model call #2
second_call_return_value(response_content, provisional) == response_content

\* line 187: only the content of the response is read; tool calls in it are dropped
SecondCallReturns(c, tcs) ==
    /\ pc = "SECOND_CALL"
    /\ calls' = Append(calls, SecondRequest)
    /\ responses' = Append(responses, Response(c, tcs))
    /\ events' = Append(events, "model")
    /\ returned' = <<second_call_return_value(c, full_response)>>
    /\ pc' = "DONE"
    /\ UNCHANGED <<store, messages, history0, use_tools, use_rag, rag_context, enhanced_messages,
                   locals, raised, rag_queries, retrieval, other_pass, persistence, last_exec, db_at_start, passes, total_calls>>

\* second_call_error that falls back to the provisional combined text
second_call_error_fallback(provisional) == [raised |-> FALSE, returned |-> <<provisional>>]

\* lines 180-187 have no try/except: what a raising model call #2 leaves behind
second_call_error(provisional) == [raised |-> TRUE, returned |-> << >>]

\* line 180 raises
\* a failure of model call #2 that puts the store back to the store of the start of the pass
SecondCallFails_rolls_back ==
    /\ pc = "SECOND_CALL"
    /\ calls' = Append(calls, SecondRequest)
    /\ responses' = Append(responses, Failure)
    /\ events' = Append(events, "model")
    /\ raised' = second_call_error(full_response).raised
    /\ returned' = second_call_error(full_response).returned
    /\ pc' = IF second_call_error(full_response).raised THEN "FAILED" ELSE "DONE"
    /\ bookings_db' = db_at_start
    /\ UNCHANGED <<clock, messages, history0, use_tools, use_rag, rag_context, enhanced_messages,
                   locals, rag_queries, retrieval, other_pass, persistence, last_exec, db_at_start, passes, total_calls>>

SecondCallFails ==
    /\ pc = "SECOND_CALL"
    /\ calls' = Append(calls, SecondRequest)
    /\ responses' = Append(responses, Failure)
    /\ events' = Append(events, "model")
    /\ raised' = second_call_error(full_response).raised
    /\ returned' = second_call_error(full_response).returned
    /\ pc' = IF second_call_error(full_response).raised THEN "FAILED" ELSE "DONE"
    /\ UNCHANGED <<store, messages, history0, use_tools, use_rag, rag_context, enhanced_messages,
                   locals, rag_queries, retrieval, other_pass, persistence, last_exec, db_at_start, passes, total_calls>>

\* the tool calls a response to model call #2 may carry
SecondToolCalls == {<< >>, WithIds(<< <<"create_booking", CallArgs>> >>)}

\* main_db.send_message lines 214-236: the turn is over, with the answer or with the
\* exception; nothing of the pass outlives it but the booking store
Return ==
    /\ pc \in {"DONE", "FAILED"}
    /\ pc' = "START"
    /\ messages' = << >>
    /\ history0' = << >>
    /\ use_tools' = TRUE
    /\ use_rag' = FALSE
    /\ rag_context' = << >>
    /\ enhanced_messages' = << >>
    /\ content' = << >>
    /\ tool_calls' = << >>
    /\ idx' = 1
    /\ tool_results' = << >>
    /\ full_response' = << >>
    /\ formatted_messages' = << >>
    /\ returned' = << >>
    /\ raised' = FALSE
    /\ calls' = << >>
    /\ responses' = << >>
    /\ events' = << >>
    /\ rag_queries' = << >>
    /\ retrieval' = << >>
    /\ last_exec' = << >>
    /\ db_at_start' = bookings_db
    /\ UNCHANGED <<store, other_pass, persistence, passes, total_calls>>

\* the tool calls one more response may carry within the bounds
CallsLeft == Min(MaxCalls, MaxTotalCalls - total_calls)

\* the steps of a pass that take no input
Step ==
    \/ FirstCallFails
    \/ ExecuteRequestedTool
    \/ Recompose
    \/ AppendToolMessage
    \/ \E c \in SecondContents, tcs \in SecondToolCalls : SecondCallReturns(c, tcs)
    \/ SecondCallFails
    \/ Return

\* turns over the conversation [user] with every tool request and retrieval outcome
Next ==
    \/ \E ut \in BOOLEAN, ur \in BOOLEAN : RunTurn(UserTurn, ut, ur)
    \/ \E env \in BasicEnvironments : Augment(env)
    \/ \E c \in FirstContents, tcs \in ToolCallLists(ToolRequests(bookings_db), CallsLeft) :
          FirstCallReturns(c, tcs)
    \/ Step

Spec == Init /\ [][Next]_vars

\* Spec when every model call, retrieval and tool execution returns or fails: a step
\* that can be taken is taken
SpecFair == Spec /\ WF_vars(Next)

\* turns over every history and every retrieval outcome, with tool requests that fail
NextCompose ==
    \/ \E history \in Histories, ut \in BOOLEAN, ur \in BOOLEAN : RunTurn(history, ut, ur)
    \/ \E env \in PassEnvironments : Augment(env)
    \/ \E c \in FirstContents, tcs \in ToolCallLists(FailingRequests, CallsLeft) :
          FirstCallReturns(c, tcs)
    \/ Step

SpecCompose == Init /\ [][NextCompose]_vars

\* one call of get_context_for_prompt, over every ranking of up to MaxDocs chunks and
\* every length limit up to MaxContextLength
NextRetrieval ==
    /\ retrieval = << >>
    /\ \E k \in 0..MaxDocs, max_context_length \in 0..MaxContextLength :
          \E matches \in [1..k -> Chunks] :
              \E env \in RetrievalEnvironments(matches) :
                  GetContextForPrompt(env, "question", max_context_length)

SpecRetrieval == Init /\ [][NextRetrieval]_vars

\* ToolExecutor.execute_tool called on its own, outside a turn
ExecuteTool(tool_name, arguments) ==
    /\ pc = "START"
    /\ total_calls < MaxTotalCalls
    /\ LET out == execute_tool(tool_name, arguments, bookings_db, clock)
       IN  /\ bookings_db' = out.db
           /\ clock' = out.clock
           /\ last_exec' = Executed([name |-> tool_name, arguments |-> arguments], out)
    /\ total_calls' = total_calls + 1
    /\ UNCHANGED <<pc, messages, history0, use_tools, use_rag, rag_context,
                   enhanced_messages, locals, returned, raised, calls, responses, events,
                   rag_queries, retrieval, other_pass, persistence, db_at_start, passes>>

\* up to MaxTotalCalls calls of execute_tool, one after the other, on one store
NextTools ==
    \E req \in DirectRequests(bookings_db) : ExecuteTool(req[1], req[2])

SpecTools == Init /\ [][NextTools]_vars

\* the requests of a pass that shares the store with another pass in flight
SharedRequests(db) ==
    {<<"create_booking", CallArgs>>}
    \cup {<<"get_booking", [booking_id |-> b]>> : b \in DOMAIN db}
    \cup {<<"update_booking", [booking_id |-> b, status |-> "cancelled"]>> : b \in DOMAIN db}

\* the arguments of the update_booking calls of the other pass against the store db
OtherUpdates(db) ==
    {[booking_id |-> b, date |-> "2024-07-02", duration_minutes |-> 90, notes |-> None] :
        b \in DOMAIN db}

\* the positions where a pass is suspended or not running: the await of model call #1
\* (line 111) and the awaits of send_message before and after the pass; model call #2
\* (line 180) and the retrieval are plain calls
AwaitPoints == {"START", "FIRST_CALL", "DONE", "FAILED"}

\* an event loop that also leaves a tool method between two of its statements
event_loop_yields_inside_tool(in_progress) == TRUE

\* the event loop gives control to a coroutine only when the running one awaits: the
\* methods of ToolExecutor are plain methods without an await, so that no pass runs
\* while a tool execution of another pass is in progress
event_loop_yields(in_progress) == in_progress = << >>

\* the other pass executes create_booking: the booking is built and stored by the one
\* assignment of line 152
OtherCreates ==
    /\ pc \in AwaitPoints
    /\ other_pass = << >>
    /\ total_calls < MaxTotalCalls
    /\ LET out == execute_tool("create_booking", CallArgs, bookings_db, clock)
       IN  /\ bookings_db' = out.db
           /\ clock' = out.clock
    /\ total_calls' = total_calls + 1
    /\ UNCHANGED <<pc, messages, history0, use_tools, use_rag, rag_context,
                   enhanced_messages, locals, returned, raised, calls, responses, events,
                   rag_queries, retrieval, other_pass, persistence, last_exec, db_at_start, passes>>

\* the other pass enters update_booking with a booking_id of the store: lines 162-172
OtherUpdateBegins(arguments) ==
    /\ pc \in AwaitPoints
    /\ other_pass = << >>
    /\ total_calls < MaxTotalCalls
    /\ arguments["booking_id"] \in DOMAIN bookings_db
    /\ other_pass' = <<[arguments |-> arguments,
                        fields |-> ApplyFields(bookings_db[arguments["booking_id"]],
                                               arguments, UpdateFields)[2],
                        db_before |-> bookings_db]>>
    /\ total_calls' = total_calls + 1
    /\ UNCHANGED <<store, pc, messages, history0, use_tools, use_rag, rag_context,
                   enhanced_messages, locals, returned, raised, calls, responses, events,
                   rag_queries, retrieval, persistence, last_exec, db_at_start, passes>>

\* one iteration of the loop of lines 175-178: booking[field] = kwargs[field], written
\* into the booking of the store
OtherUpdateWrites ==
    /\ other_pass # << >>
    /\ other_pass[1].fields # << >>
    /\ LET o == other_pass[1]
           booking_id == o.arguments["booking_id"]
           field == Head(o.fields)
       IN  /\ bookings_db' = Put(bookings_db, booking_id,
                                 [bookings_db[booking_id] EXCEPT ![field] = o.arguments[field]])
           /\ other_pass' = <<[o EXCEPT !.fields = Tail(o.fields)]>>
    /\ UNCHANGED <<clock, pc, messages, history0, use_tools, use_rag, rag_context,
                   enhanced_messages, locals, returned, raised, calls, responses, events,
                   rag_queries, retrieval, persistence, last_exec, db_at_start, passes, total_calls>>

\* lines 180-187: updated_at is set and update_booking returns
OtherUpdateEnds ==
    /\ other_pass # << >>
    /\ other_pass[1].fields = << >>
    /\ LET booking_id == other_pass[1].arguments["booking_id"]
       IN  bookings_db' = Put(bookings_db, booking_id,
                              [bookings_db[booking_id] EXCEPT !["updated_at"] = clock + 1])
    /\ clock' = clock + 1
    /\ other_pass' = << >>
    /\ UNCHANGED <<pc, messages, history0, use_tools, use_rag, rag_context,
                   enhanced_messages, locals, returned, raised, calls, responses, events,
                   rag_queries, retrieval, persistence, last_exec, db_at_start, passes, total_calls>>

\* a pass over the conversation [user], and the tool executions of another pass of the
\* same process on the same store
NextShared ==
    \/ \E ur \in BOOLEAN : event_loop_yields(other_pass) /\ RunTurn(UserTurn, TRUE, ur)
    \/ \E env \in BasicEnvironments : event_loop_yields(other_pass) /\ Augment(env)
    \/ \E c \in SecondContents, tcs \in ToolCallLists(SharedRequests(bookings_db), CallsLeft) :
          event_loop_yields(other_pass) /\ FirstCallReturns(c, tcs)
    \/ event_loop_yields(other_pass) /\ FirstCallFails
    \/ event_loop_yields(other_pass) /\ ExecuteRequestedTool
    \/ event_loop_yields(other_pass) /\ Recompose
    \/ event_loop_yields(other_pass) /\ AppendToolMessage
    \/ \E c \in SecondContents, tcs \in SecondToolCalls :
          event_loop_yields(other_pass) /\ SecondCallReturns(c, tcs)
    \/ event_loop_yields(other_pass) /\ SecondCallFails
    \/ event_loop_yields(other_pass) /\ Return
    \/ OtherCreates
    \/ \E arguments \in OtherUpdates(bookings_db) : OtherUpdateBegins(arguments)
    \/ OtherUpdateWrites
    \/ OtherUpdateEnds

SpecShared == Init /\ [][NextShared]_vars

\* ------------------------------------------------ main_db.py
\* send_message lines 174-179: the conversation exists, and create_message stores the
\* user's message in it
CreateUserMessage(text) ==
    /\ send_pc \in {"IDLE", "RESPONDED", "RAISED"}
    /\ pc = "START"
    /\ passes < MaxPasses
    /\ messages_before' = stored_messages
    /\ stored_messages' = Append(stored_messages, Msg("user", text))
    /\ send_pc' = "USER_SAVED"
    /\ UNCHANGED <<store, pc, messages, history0, use_tools, use_rag, rag_context,
                   enhanced_messages, locals, returned, raised, calls, responses, events,
                   rag_queries, retrieval, other_pass, last_exec, db_at_start, passes,
                   total_calls>>

\* lines 189-212: get_messages reads the conversation, and the completion is asked for
\* over it, with or without the tools
GetCompletion(use_tools_flag, use_rag_flag) ==
    /\ send_pc = "USER_SAVED"
    /\ RunTurn(stored_messages, use_tools_flag, use_rag_flag)

\* lines 215-231: the completion returned; create_message stores the assistant's message
SaveAssistantMessage ==
    /\ send_pc = "USER_SAVED"
    /\ pc = "DONE"
    /\ stored_messages' = Append(stored_messages, Msg("assistant", returned[1]))
    /\ send_pc' = "RESPONDED"
    /\ UNCHANGED <<store, pc, messages, history0, use_tools, use_rag, rag_context,
                   enhanced_messages, locals, returned, raised, calls, responses, events,
                   rag_queries, retrieval, other_pass, last_exec, db_at_start, passes,
                   total_calls, messages_before>>

\* lines 233-236: the completion raised; the handler raises HTTPException(500)
CompletionFails ==
    /\ send_pc = "USER_SAVED"
    /\ pc = "FAILED"
    /\ send_pc' = "RAISED"
    /\ UNCHANGED <<store, pc, messages, history0, use_tools, use_rag, rag_context,
                   enhanced_messages, locals, returned, raised, calls, responses, events,
                   rag_queries, retrieval, other_pass, last_exec, db_at_start, passes,
                   total_calls, stored_messages, messages_before>>

\* the handler is left
SendMessageReturns ==
    /\ send_pc \in {"RESPONDED", "RAISED"}
    /\ Return

\* requests to send_message, one after the other, on one conversation
NextSend ==
    \/ CreateUserMessage(ContentOf("user"))
    \/ \E use_tools_flag \in BOOLEAN, use_rag_flag \in BOOLEAN :
          GetCompletion(use_tools_flag, use_rag_flag)
    \/ \E env \in BasicEnvironments : Augment(env)
    \/ \E c \in FirstContents, tcs \in ToolCallLists(FailingRequests, CallsLeft) :
          FirstCallReturns(c, tcs)
    \/ FirstCallFails
    \/ ExecuteRequestedTool
    \/ Recompose
    \/ AppendToolMessage
    \/ \E c \in SecondContents, tcs \in SecondToolCalls : SecondCallReturns(c, tcs)
    \/ SecondCallFails
    \/ SaveAssistantMessage
    \/ CompletionFails
    \/ SendMessageReturns

SpecSend == Init /\ [][NextSend]_vars

\* ------------------------------------------------ properties
CountOf(seq, x) == Cardinality({i \in 1..Len(seq) : seq[i] = x})

PassOver == pc \in {"DONE", "FAILED"}

Round1RequestedTools ==
    use_tools /\ Len(responses) >= 1 /\ responses[1].ok /\ responses[1].tool_calls # << >>

\* C1: a pass issues at most two model calls; when round 1 requested tool calls it
\* issues exactly two, the second without the tool catalog; no tool is executed after
\* model call #2, and the pass is over once call #2 has answered, whatever tool calls
\* that answer carries.
C1_TwoRoundCap ==
    /\ Len(calls) = CountOf(events, "model")
    /\ Len(calls) <= 2
    /\ (PassOver /\ Round1RequestedTools) => (Len(calls) = 2 /\ ~calls[2].tools)
    /\ \A i \in 1..Len(events) :
          (events[i] = "model" /\ CountOf(SubSeq(events, 1, i), "model") = 2)
             => i = Len(events)
    /\ Len(responses) = 2 => PassOver

C1_Witness ==
    pc = "DONE" /\ Len(responses) = 2 /\ responses[2].tool_calls # << >>

WellFormedCreate(tc) ==
    /\ tc.name = "create_booking"
    /\ CreateRequired \subseteq DOMAIN tc.arguments
    /\ DOMAIN tc.arguments \subseteq CreateRequired \cup CreateOptional

\* C2: a pass whose first response requested n tool calls has invoked the executor n
\* times when the loops are over, and a pass of k create_booking requests has added k
\* bookings to the store.
C2_OneExecutionPerCall ==
    (pc \in {"SECOND_CALL", "DONE", "FAILED"} /\ Round1RequestedTools)
       => /\ CountOf(events, "tool") = Len(tool_calls)
          /\ (\A i \in 1..Len(tool_calls) : WellFormedCreate(tool_calls[i]))
                => Cardinality(DOMAIN bookings_db) - Cardinality(DOMAIN db_at_start)
                     = Len(tool_calls)

\* C3: when round 1 requested tool calls and model call #2 answers, the pass returns
\* the content of that answer, and not the provisional combined text.
C3_ReturnsSecondContent ==
    (Round1RequestedTools /\ Len(responses) = 2 /\ responses[2].ok)
       => /\ pc = "DONE"
          /\ returned = <<responses[2].content>>
          /\ returned # <<full_response>>

C3_Witness ==
    /\ pc = "DONE" /\ Len(responses) = 2 /\ responses[2].ok
    /\ content # << >> /\ Len(tool_results) = 2

\* C4: when the answer to model call #1 carries no tool calls the pass is over at
\* once: it returns that answer's content, has executed no tool, has left the store
\* as it was and has issued one model call.
C4_NoToolCallsIsTerminal ==
    (use_tools /\ Len(responses) >= 1 /\ responses[1].ok /\ responses[1].tool_calls = << >>)
       => /\ pc = "DONE"
          /\ returned = <<responses[1].content>>
          /\ CountOf(events, "tool") = 0
          /\ bookings_db = db_at_start
          /\ Len(calls) = 1

C4_Witness ==
    /\ pc = "DONE" /\ use_tools /\ Len(responses) = 1 /\ responses[1].ok
    /\ DOMAIN bookings_db # {}

\* C5: with use_tools false, for either value of use_rag, the turn is one model call
\* without the tool catalog whose content is returned; no tool runs, the retrieval
\* gateway is not consulted and the store is unchanged.
C5_ToolsDisabledSingleCall ==
    ~use_tools
       => /\ Len(calls) <= 1
          /\ \A i \in 1..Len(calls) : ~calls[i].tools
          /\ CountOf(events, "tool") = 0
          /\ CountOf(events, "retrieve") = 0
          /\ rag_queries = << >>
          /\ bookings_db = db_at_start
          /\ pc \in {"FIRST_CALL", "DONE", "FAILED"}
          /\ pc = "DONE" => (Len(calls) = 1 /\ returned = <<responses[1].content>>)

C5_Witness ==
    pc = "DONE" /\ ~use_tools /\ use_rag /\ Len(calls) = 1 /\ DOMAIN bookings_db # {}

\* C6: when a model call fails the pass ends in failure: the exception reaches the
\* caller, no further model call is issued and no answer text is returned.
C6_ModelFailureFailsPass ==
    \A i \in 1..Len(responses) :
        ~responses[i].ok
           => /\ i = Len(responses)
              /\ Len(calls) = i
              /\ pc = "FAILED"
              /\ raised
              /\ returned = << >>

C6_Witness ==
    pc = "FAILED" /\ Len(responses) = 2 /\ ~responses[2].ok /\ full_response # << >>

IsToolError(text) == text # << >> /\ text[1] = "[Tool Error: "

ToolMessage(i) == formatted_messages[Len(messages) + 2 + i]

\* C7: a failing tool call never aborts the turn: only a failed model call ends a pass
\* in failure; every requested call is executed, the tool message of a call that
\* failed carries the error result, and model call #2 follows.
C7_ToolFailureAbsorbed ==
    /\ pc = "FAILED" => (Len(responses) >= 1 /\ ~responses[Len(responses)].ok)
    /\ (pc \in {"SECOND_CALL", "DONE", "FAILED"} /\ Round1RequestedTools)
          => /\ Len(tool_results) = Len(tool_calls)
             /\ Len(formatted_messages) = Len(messages) + 2 + Len(tool_calls)
             /\ \A i \in 1..Len(tool_calls) :
                   IsToolError(tool_results[i])
                      => /\ ToolMessage(i).role = "tool"
                         /\ ToolMessage(i).tool_call_id = tool_calls[i].id
                         /\ "error" \in DOMAIN ToolMessage(i).content.json
             /\ pc # "SECOND_CALL" => Len(calls) = 2

C7_Witness ==
    /\ pc = "DONE" /\ Len(tool_calls) = 2
    /\ tool_calls[1].name = "update_booking" /\ IsToolError(tool_results[1])
    /\ tool_calls[2].name = "create_booking" /\ ~IsToolError(tool_results[2])

HasError(e) == "error" \in DOMAIN e.out.result

\* C8 as claimed: execute_tool never raises; an unknown name gives an error result, and
\* so do arguments with a missing required key or an undeclared key.
C8_ExecuteToolTotal_AsClaimed ==
    last_exec # << >>
       => LET e == last_exec[1]
          IN  /\ ~e.out.raised
              /\ e.name \notin ToolNames => HasError(e)
              /\ (/\ e.name \in ToolNames
                  /\ ~(/\ required_params(e.name) \subseteq DOMAIN e.arguments
                       /\ DOMAIN e.arguments \subseteq declared_params(e.name)))
                    => HasError(e)

\* C8: execute_tool never raises; an unknown name gives an error result; arguments
\* with a missing required key give an error result for every tool, arguments with an
\* undeclared key give one for create_booking and get_booking, and the undeclared key
\* foo is no error for update_booking: on a stored id the call succeeds.
C8_ExecuteToolTotal ==
    last_exec # << >>
       => LET e == last_exec[1]
          IN  /\ ~e.out.raised
              /\ e.name \notin ToolNames => HasError(e)
              /\ (/\ e.name \in ToolNames
                  /\ ~(required_params(e.name) \subseteq DOMAIN e.arguments))
                    => HasError(e)
              /\ (/\ e.name \in {"create_booking", "get_booking"}
                  /\ ~(DOMAIN e.arguments \subseteq declared_params(e.name)))
                    => HasError(e)
              /\ (/\ e.name = "update_booking"
                  /\ "booking_id" \in DOMAIN e.arguments
                  /\ DOMAIN e.arguments \subseteq declared_params(e.name) \cup {"foo"}
                  /\ e.arguments["booking_id"] \in DOMAIN e.db_before)
                    => (~HasError(e) /\ e.out.result["success"])

C8_Witness ==
    /\ last_exec # << >>
    /\ last_exec[1].name = "update_booking"
    /\ "foo" \in DOMAIN last_exec[1].arguments
    /\ last_exec[1].arguments["booking_id"] \in DOMAIN last_exec[1].db_before
    /\ ~last_exec[1].out.raised
    /\ ~HasError(last_exec[1])

SystemCount(msgs) == Cardinality({i \in 1..Len(msgs) : msgs[i].role = "system"})

\* C9: every message list sent to the model, in call #1 and in call #2, holds at most
\* one system message, and a system message it holds is its first entry.
C9_AtMostOneSystemMessage ==
    \A k \in 1..Len(calls) :
        LET sent == calls[k].messages
        IN  /\ SystemCount(sent) <= 1
            /\ SystemCount(sent) = 1 => sent[1].role = "system"

\* the messages t repeat the history given to the pass, in order; the content of the
\* last one may carry the retrieved context
FollowsHistory(t) ==
    /\ Len(t) = Len(history0)
    /\ \A i \in 1..Len(history0) :
          /\ t[i].role = history0[i].role
          /\ (i < Len(history0) \/ rag_context = << >>) => t[i].content = history0[i].content

\* C10: the messages of model call #1 are one system message followed by the history
\* in order when the history does not start with a system message (the empty history
\* included), and the history alone when it does.
C10_FirstCallComposition ==
    Len(calls) >= 1
       => LET sent == calls[1].messages
          IN  IF history0 = << >> \/ history0[1].role # "system"
              THEN /\ sent # << >>
                   /\ sent[1] = Msg("system", SYSTEM_PROMPT)
                   /\ FollowsHistory(Tail(sent))
              ELSE FollowsHistory(sent)

C10_Witness ==
    /\ Len(calls) >= 1 /\ Len(history0) = 2
    /\ history0[1].role = "user" /\ history0[2].role = "assistant"
    /\ Len(calls[1].messages) = 3

\* the messages of history sent as they are: get_completion_messages(history, TRUE)
\* written out
Unaugmented(history) ==
    (IF history = << >> \/ history[1].role # "system"
     THEN <<Msg("system", SYSTEM_PROMPT)>> ELSE << >>)
    \o history

\* C11: when the retrieved text A is not empty and the history ends in a user message
\* of content C, the last message of model call #1 has the content A, then
\* "\n\nUser Question: ", then C, and every other message is as in the unaugmented
\* composition; when the history holds no user message, call #1 carries the
\* unaugmented composition.
C11_AugmentationMerge ==
    Len(calls) >= 1
       => LET sent == calls[1].messages
              plain == Unaugmented(history0)
              h == Len(history0)
          IN  /\ (rag_context # << >> /\ h > 0 /\ history0[h].role = "user")
                    => /\ Len(sent) = Len(plain)
                       /\ sent[Len(sent)].role = "user"
                       /\ sent[Len(sent)].content
                             = rag_context \o <<"\n\nUser Question: ">> \o history0[h].content
                       /\ \A i \in 1..(Len(sent) - 1) : sent[i] = plain[i]
              /\ user_messages(history0) = << >> => sent = plain

C11_Witness ==
    /\ Len(calls) >= 1
    /\ rag_context # << >>
    /\ Len(history0) = 2
    /\ history0[1].role = "assistant" /\ history0[2].role = "user"
    /\ calls[1].messages[3].content # history0[2].content

\* the positions of the user messages of msgs
UserPositions(msgs) == {i \in 1..Len(msgs) : msgs[i].role = "user"}

LastUserPosition(msgs) ==
    CHOOSE i \in UserPositions(msgs) : \A j \in UserPositions(msgs) : j <= i

\* C12: when the retrieved text is not empty, model call #1 carries it in front of the
\* content of the last user message of the history, wherever that message sits, also
\* when an assistant or system message follows it.
C12_AugmentsLastUserMessage ==
    (Len(calls) >= 1 /\ rag_context # << >> /\ UserPositions(history0) # {})
       => LET sent == calls[1].messages
              u == LastUserPosition(history0)
              at == Len(sent) - Len(history0) + u
          IN  sent[at].content
                 = rag_context \o <<"\n\nUser Question: ">> \o history0[u].content

\* C13: the message list of model call #2 repeats, after its system prompt, every
\* message of the history with its original role and content; the retrieved text is
\* in none of them.
C13_SecondCallHistoryUnmodified ==
    Len(calls) >= 2
       => LET sent == calls[2].messages
          IN  /\ Len(sent) > Len(history0)
              /\ \A i \in 1..Len(history0) : sent[1 + i] = history0[i]

\* C14: in the message list of model call #2 the assistant message carries the tool
\* calls of round 1, with their ids, names and arguments, in their order; after it
\* come one tool message per call, in the same order, each with the id of its call,
\* and nothing else, so no tool message names an id the assistant message lacks.
C14_ToolMessagesMatchCalls ==
    Len(calls) >= 2
       => LET sent == calls[2].messages
              tcs == responses[1].tool_calls
              a == Len(history0) + 2
          IN  /\ Len(sent) = a + Len(tcs)
              /\ \A i \in 1..(a - 1) : sent[i].role # "tool"
              /\ sent[a].role = "assistant"
              /\ Len(sent[a].tool_calls) = Len(tcs)
              /\ \A i \in 1..Len(tcs) :
                    /\ sent[a].tool_calls[i].id = tcs[i].id
                    /\ sent[a].tool_calls[i].function.name = tcs[i].name
                    /\ sent[a].tool_calls[i].function.arguments = [json |-> tcs[i].arguments]
                    /\ sent[a + i].role = "tool"
                    /\ sent[a + i].tool_call_id = tcs[i].id

C14_Witness ==
    /\ Len(calls) >= 2
    /\ Len(responses[1].tool_calls) = 2
    /\ responses[1].tool_calls[1].name # responses[1].tool_calls[2].name
    /\ Len(calls[2].messages) = Len(history0) + 4

\* C15: after the pass returned or failed, every message of the caller's list has the
\* role and the content it had when the pass was called.
C15_HistoryNeverModified ==
    PassOver
       => /\ Len(messages) = Len(history0)
          /\ \A i \in 1..Len(history0) :
                /\ messages[i].role = history0[i].role
                /\ messages[i].content = history0[i].content

\* a cause for which the retrieval over env finds nothing
RetrievalFails(env) ==
    \/ ~env.PINECONE_API_KEY
    \/ ~env.OPENAI_API_KEY
    \/ ~env.index_connects
    \/ ~env.embedding_ok
    \/ ~env.query_ok
    \/ env.matches = << >>

\* C16: in a turn with use_rag, when the vector store is not configured, the index
\* does not connect, the embedding or the query fails, or no chunk matches, the
\* retrieved context is empty, the turn fails only if a model call failed, and
\* model call #1 carries the unaugmented composition of the history.
C16_RetrievalFailureIsSilent ==
    (use_rag /\ retrieval # << >> /\ RetrievalFails(retrieval[1].env))
       => /\ retrieval[1].context = ""
          /\ rag_context = << >>
          /\ pc # "AUGMENT"
          /\ raised => (responses # << >> /\ ~responses[Len(responses)].ok)
          /\ Len(calls) >= 1 => calls[1].messages = Unaugmented(history0)

C16_Witness ==
    /\ use_rag /\ retrieval # << >>
    /\ ~retrieval[1].env.embedding_ok
    /\ retrieval[1].env.matches # << >>
    /\ history0 # << >> /\ history0[Len(history0)].role = "user"
    /\ pc = "DONE"
    /\ Len(calls) >= 1

\* a chunk as get_context_for_prompt formats it
Formatted(doc) ==
    IF doc.title = "" THEN doc.text ELSE "[" \o doc.title \o "]\n" \o doc.text

\* the characters of the strings of parts, together
RECURSIVE TotalLen(_)
TotalLen(parts) ==
    IF parts = << >> THEN 0 ELSE Len(Head(parts)) + TotalLen(Tail(parts))

\* C17: get_context_for_prompt includes whole formatted chunks only: the included
\* chunks are the first ones of the three best ranked chunks, in their order; their
\* lengths together do not exceed max_context_length; the first chunk left out is
\* one that would have pushed the total over max_context_length, and no later chunk
\* is included even if it would fit; when the first chunk alone is longer than
\* max_context_length the result is the empty string.
C17_WholeChunkPrefix ==
    retrieval # << >>
       => LET r == retrieval[1]
              top == r.documents
              parts == r.context_parts
              limit == r.max_context_length
          IN  /\ Len(top) <= 3
              /\ Len(top) <= Len(r.env.matches)
              /\ \A i \in 1..Len(top) : top[i] = r.env.matches[i]
              /\ Len(parts) <= Len(top)
              /\ \A i \in 1..Len(parts) : parts[i] = Formatted(top[i])
              /\ TotalLen(parts) <= limit
              /\ Len(parts) < Len(top)
                    => TotalLen(parts) + Len(Formatted(top[Len(parts) + 1])) > limit
              /\ (top # << >> /\ Len(Formatted(top[1])) > limit) => r.context = ""
              /\ parts = << >> <=> r.context = ""

C17_Witness ==
    /\ retrieval # << >>
    /\ Len(retrieval[1].env.matches) = 4
    /\ Len(retrieval[1].documents) = 3
    /\ Len(retrieval[1].context_parts) = 1
    /\ Len(retrieval[1].context_parts[1]) + Len(Formatted(retrieval[1].documents[3]))
          <= retrieval[1].max_context_length

\* C18: the text get_context_for_prompt returns is not longer than the included
\* chunks together, and so not longer than max_context_length.
C18_ContextWithinBudget ==
    retrieval # << >>
       => /\ Len(retrieval[1].context) <= TotalLen(retrieval[1].context_parts)
          /\ Len(retrieval[1].context) <= retrieval[1].max_context_length

\* the last execution was update_booking(booking_id, ...) against the store db_before
UpdateExecuted ==
    /\ last_exec # << >>
    /\ last_exec[1].name = "update_booking"
    /\ "booking_id" \in DOMAIN last_exec[1].arguments

\* C19: update_booking with a booking_id that is not in the store returns a result
\* with success = false and an error, and the store after it is the store before it.
C19_UpdateUnknownId ==
    (UpdateExecuted /\ last_exec[1].arguments["booking_id"] \notin DOMAIN last_exec[1].db_before)
       => /\ ~last_exec[1].out.raised
          /\ last_exec[1].out.result["success"] = FALSE
          /\ "error" \in DOMAIN last_exec[1].out.result
          /\ last_exec[1].out.db = last_exec[1].db_before
          /\ bookings_db = last_exec[1].db_before

C19_Witness ==
    /\ UpdateExecuted
    /\ last_exec[1].arguments["booking_id"] \notin DOMAIN last_exec[1].db_before
    /\ last_exec[1].db_before # EmptyArgs

\* the argument f of update_booking came with a value
Supplied(arguments, f) ==
    f \in DOMAIN arguments /\ ToString(arguments[f]) # ToString("None")

\* C20: update_booking with a booking_id of the store sets, in that booking, every
\* field of date, time, duration_minutes, status and notes that came with a value to
\* that value, and changes updated_at; every other field of that booking and every
\* other booking is as before, and no booking is added or removed.
C20_UpdateChangesSuppliedFieldsOnly ==
    (UpdateExecuted /\ last_exec[1].arguments["booking_id"] \in DOMAIN last_exec[1].db_before)
       => LET e == last_exec[1]
              id == e.arguments["booking_id"]
              before == e.db_before
              after == e.out.db
          IN  /\ ~e.out.raised
              /\ bookings_db = after
              /\ DOMAIN after = DOMAIN before
              /\ \A other \in DOMAIN before \ {id} : after[other] = before[other]
              /\ DOMAIN after[id] = DOMAIN before[id]
              /\ \A f \in DOMAIN before[id] :
                    IF f \in Range(UpdateFields) /\ Supplied(e.arguments, f)
                    THEN after[id][f] = e.arguments[f]
                    ELSE IF f = "updated_at"
                    THEN after[id][f] > before[id][f]
                    ELSE after[id][f] = before[id][f]

C20_Witness ==
    /\ UpdateExecuted
    /\ last_exec[1].arguments["booking_id"] \in DOMAIN last_exec[1].db_before
    /\ Cardinality(DOMAIN last_exec[1].db_before) >= 2
    /\ "notes" \in DOMAIN last_exec[1].arguments
    /\ last_exec[1].out.db[last_exec[1].arguments["booking_id"]]["date"] = "2024-07-02"
    /\ last_exec[1].out.db[last_exec[1].arguments["booking_id"]]["duration_minutes"] = 90

\* the last execution was tool_name with arguments that bind to its parameters
Bound(tool_name) ==
    /\ last_exec # << >>
    /\ last_exec[1].name = tool_name
    /\ required_params(tool_name) \subseteq DOMAIN last_exec[1].arguments
    /\ DOMAIN last_exec[1].arguments \subseteq declared_params(tool_name)

\* the last execution was get_booking with a booking_id that is not empty
GetById ==
    /\ Bound("get_booking")
    /\ "booking_id" \in DOMAIN last_exec[1].arguments
    /\ last_exec[1].arguments["booking_id"] # EmptyId

\* booking passes the filters customer_email, date and status of arguments
MatchesFilters(booking, arguments) ==
    /\ "customer_email" \in DOMAIN arguments
          => booking["customer_email"] = arguments["customer_email"]
    /\ "date" \in DOMAIN arguments => booking["date"] = arguments["date"]
    /\ ("status" \in DOMAIN arguments /\ arguments["status"] # "all")
          => booking["status"] = arguments["status"]

\* C21: get_booking without a booking_id returns the bookings of the store that pass
\* every filter it was given, all of them and no other: all bookings without a
\* filter, every status for status "all", one status otherwise; count is the number
\* of the bookings returned.
C21_GetBookingFilters ==
    (Bound("get_booking") /\ ~GetById)
       => LET e == last_exec[1]
              result == e.out.result
          IN  /\ ~e.out.raised
              /\ result["success"]
              /\ result["count"] = Len(result["bookings"])
              /\ Range(result["bookings"])
                    = {bookings_db[b] : b \in {k \in DOMAIN bookings_db :
                                                  MatchesFilters(bookings_db[k], e.arguments)}}

\* C22: the store after a call of get_booking is the store before it, for every
\* argument combination.
C22_GetBookingReadOnly ==
    (last_exec # << >> /\ last_exec[1].name = "get_booking")
       => /\ last_exec[1].out.db = last_exec[1].db_before
          /\ bookings_db = last_exec[1].db_before

\* C23: create_booking with the required arguments returns success = true and adds
\* one booking under an id that was not a key of the store, with status "confirmed",
\* with duration_minutes and notes as given, or 60 and "" when they are left out,
\* and with the other fields as given; the bookings stored before are unchanged.
C23_CreateInsertsOne ==
    Bound("create_booking")
       => LET e == last_exec[1]
              result == e.out.result
              id == result["booking_id"]
              before == e.db_before
          IN  /\ ~e.out.raised
              /\ result["success"]
              /\ id \notin DOMAIN before
              /\ DOMAIN bookings_db = DOMAIN before \cup {id}
              /\ \A b \in DOMAIN before : bookings_db[b] = before[b]
              /\ bookings_db[id] = result["booking"]
              /\ bookings_db[id]["booking_id"] = id
              /\ bookings_db[id]["status"] = "confirmed"
              /\ bookings_db[id]["duration_minutes"]
                    = (IF "duration_minutes" \in DOMAIN e.arguments
                       THEN e.arguments["duration_minutes"] ELSE 60)
              /\ bookings_db[id]["notes"]
                    = (IF "notes" \in DOMAIN e.arguments THEN e.arguments["notes"] ELSE "")
              /\ \A f \in CreateRequired : bookings_db[id][f] = e.arguments[f]

C23_Witness ==
    /\ Bound("create_booking")
    /\ "notes" \in DOMAIN last_exec[1].arguments
    /\ last_exec[1].db_before # EmptyArgs
    /\ Cardinality(DOMAIN bookings_db) = Cardinality(DOMAIN last_exec[1].db_before) + 1

\* C24: the status of every stored booking is confirmed, cancelled, rescheduled or
\* completed, after every sequence of calls of execute_tool.
C24_StatusInCatalog ==
    \A b \in DOMAIN bookings_db :
        bookings_db[b]["status"] \in {"confirmed", "cancelled", "rescheduled", "completed"}


\* the labels of the booking fields in a rendering
FieldLabels ==
    {"\nBooking ID: ", "\nCustomer: ", "\nService: ", "\nDate/Time: ", "\nDuration: ",
     "\nStatus: "}

\* the field labels of text, in the order in which they appear
Labels(text) == SelectSeq(text, LAMBDA t : t \in FieldLabels)

\* the last tool execution was rendered as the last entry of tool_results
Rendered ==
    /\ pc \in {"TOOLS_EXECUTING", "RECOMPOSE"}
    /\ last_exec # << >>
    /\ tool_results # << >>

\* C26: format_tool_response renders a result with an "error" field as a tool-error
\* line, and the successful result of each of the three tools that carries one
\* booking with the fields booking ID, customer, service, date/time, in this order,
\* and then the duration (create_booking) or the status (get_booking); the result of
\* a successful update_booking is rendered in this way too.
C26_FormatFieldOrder ==
    Rendered
       => LET e == last_exec[1]
              result == e.out.result
              text == tool_results[Len(tool_results)]
          IN  /\ "error" \in DOMAIN result => IsToolError(text)
              /\ ("error" \notin DOMAIN result /\ "booking" \in DOMAIN result)
                    => /\ Len(Labels(text)) = 5
                       /\ SubSeq(Labels(text), 1, 4)
                             = <<"\nBooking ID: ", "\nCustomer: ", "\nService: ", "\nDate/Time: ">>
                       /\ e.name = "create_booking" => Labels(text)[5] = "\nDuration: "
                       /\ e.name = "get_booking" => Labels(text)[5] = "\nStatus: "

\* the steps from one position of a pass to the next
PassTransitions ==
    {<<"START", "AUGMENT">>, <<"START", "FIRST_CALL">>, <<"AUGMENT", "FIRST_CALL">>,
     <<"FIRST_CALL", "DONE">>, <<"FIRST_CALL", "FAILED">>, <<"FIRST_CALL", "TOOLS_EXECUTING">>,
     <<"TOOLS_EXECUTING", "TOOLS_EXECUTING">>, <<"TOOLS_EXECUTING", "RECOMPOSE">>,
     <<"RECOMPOSE", "TOOL_MESSAGES">>, <<"TOOL_MESSAGES", "TOOL_MESSAGES">>,
     <<"TOOL_MESSAGES", "SECOND_CALL">>,
     <<"SECOND_CALL", "DONE">>, <<"SECOND_CALL", "FAILED">>,
     <<"DONE", "START">>, <<"FAILED", "START">>}

\* this step executes a tool
ToolRuns == events' # events /\ events' # << >> /\ events'[Len(events')] = "tool"

\* this step issues a model call
ModelCalled == Len(calls') = Len(calls) + 1

\* one step of a pass as the claim has it
SequentialStep ==
    /\ <<pc, pc'>> \in PassTransitions
    /\ Len(events') <= Len(events) + 1
    /\ ToolRuns
          => /\ Len(calls) = 1 /\ Len(responses) = 1 /\ responses[1].ok
             /\ responses[1].tool_calls # << >>
             /\ LET emitted == responses[1].tool_calls
                    k == (CountOf(events, "tool") % Len(emitted)) + 1
                IN  /\ last_exec'[1].name = emitted[k].name
                    /\ last_exec'[1].arguments = emitted[k].arguments
                    /\ last_exec'[1].db_before = bookings_db
    /\ (ModelCalled /\ Len(calls) = 1)
          => /\ pc = "SECOND_CALL"
             /\ CountOf(events, "tool") >= Len(responses[1].tool_calls)
             /\ CountOf(events, "tool") % Len(responses[1].tool_calls) = 0
    /\ (ModelCalled /\ Len(calls) = 0) => CountOf(events, "tool") = 0

\* C27: the steps of a pass follow START, FIRST_CALL, then DONE or the tool
\* executions, SECOND_CALL and DONE, one step at a time: a tool runs only after model
\* call #1 has returned and before model call #2, the tools run one at a time in the
\* order in which the response lists them, and model call #2 is issued only when
\* every requested tool has run.
C27_StrictlySequential == [][SequentialStep]_vars

C27_Witness ==
    /\ pc = "SECOND_CALL"
    /\ Len(tool_calls) = 2
    /\ tool_calls[1].name # tool_calls[2].name
    /\ CountOf(events, "tool") >= 2

\* C28: in one pass the retrieval gateway is consulted at most once, only with use_rag
\* and a user message in the history, before model call #1, and with the content of
\* the last user message as the query; it is not consulted after a model call.
C28_RetrievalOnceBeforeFirstCall ==
    /\ CountOf(events, "retrieve") <= 1
    /\ Len(rag_queries) = CountOf(events, "retrieve")
    /\ CountOf(events, "retrieve") = 1
          => /\ events[1] = "retrieve"
             /\ use_rag
             /\ UserPositions(history0) # {}
             /\ rag_queries[1] = history0[LastUserPosition(history0)].content

C28_Witness ==
    /\ CountOf(events, "retrieve") = 1
    /\ Len(history0) = 2
    /\ history0[1].role = "user" /\ history0[2].role = "assistant"
    /\ Len(calls) = 2

\* a pass that has started comes to its end, with an answer or with a failure
PassTerminates == (pc \in {"AUGMENT", "FIRST_CALL"}) ~> PassOver

\* the tools executed in the pass are not more than the tool calls of the round-1
\* response
ToolExecutionsBounded ==
    CountOf(events, "tool")
       <= (IF responses = << >> THEN 0 ELSE Len(responses[1].tool_calls))

\* C29: every pass terminates when its model calls, its retrieval and its tool
\* executions return or fail: it reaches DONE with an answer or ends in failure, and
\* it has executed at most as many tools as the round-1 response holds tool calls.
C29_PassTerminatesWithinBound == PassTerminates /\ []ToolExecutionsBounded

\* C30: get_booking with a booking_id that is not empty returns the stored booking of
\* that id with success = true when there is one, and a result with success = false
\* and an error when there is none, whatever filters come with it.
C30_GetBookingById ==
    GetById
       => LET e == last_exec[1]
              id == e.arguments["booking_id"]
              result == e.out.result
          IN  /\ ~e.out.raised
              /\ id \in DOMAIN e.db_before
                    => /\ result["success"]
                       /\ DOMAIN result = {"success", "booking"}
                       /\ result["booking"] = e.db_before[id]
              /\ id \notin DOMAIN e.db_before
                    => /\ ~result["success"]
                       /\ "error" \in DOMAIN result
                       /\ "booking" \notin DOMAIN result

C30_Witness ==
    /\ GetById
    /\ "customer_email" \in DOMAIN last_exec[1].arguments
    /\ last_exec[1].arguments["booking_id"] \in DOMAIN last_exec[1].db_before
    /\ last_exec[1].out.result["booking"]["customer_email"]
          # last_exec[1].arguments["customer_email"]

\* the update of the other pass is partially applied: it has written a field into the
\* store and has not returned
PartiallyApplied ==
    /\ other_pass # << >>
    /\ bookings_db # other_pass[1].db_before

\* the update_booking of the other pass returns
OtherUpdateReturns == other_pass # << >> /\ other_pass' = << >>

\* one step of two passes that share the store
SerializedStep ==
    /\ ToolRuns => other_pass = << >>
    /\ DOMAIN bookings_db \subseteq DOMAIN bookings_db'
    /\ OtherUpdateReturns
          => LET o == other_pass[1]
                 id == o.arguments["booking_id"]
                 before == o.db_before
                 after == bookings_db'
             IN  /\ DOMAIN after = DOMAIN before
                 /\ \A b \in DOMAIN before \ {id} : after[b] = before[b]
                 /\ \A f \in DOMAIN before[id] :
                       IF f \in Range(UpdateFields) /\ Supplied(o.arguments, f)
                       THEN after[id][f] = o.arguments[f]
                       ELSE IF f = "updated_at"
                       THEN after[id][f] > before[id][f]
                       ELSE after[id][f] = before[id][f]

ErrorReturned ==
    /\ last_exec # << >>
    /\ ~last_exec[1].out.raised
    /\ "error" \in DOMAIN last_exec[1].out.result

\* C31: when execute_tool returns a result with an "error" field (unknown tool,
\* arguments that do not bind, unknown booking id of update_booking or get_booking),
\* the booking store is the store of before the call.
C31_ErrorLeavesStore ==
    ErrorReturned
       => /\ last_exec[1].out.db = last_exec[1].db_before
          /\ bookings_db = last_exec[1].db_before

C31_Witness ==
    /\ ErrorReturned
    /\ last_exec[1].name = "get_booking"
    /\ "booking_id" \in DOMAIN last_exec[1].arguments
    /\ last_exec[1].db_before # EmptyArgs

\* the fields of a booking that are set once, by create_booking
ImmutableFields == {"booking_id", "service_type", "customer_name", "customer_email", "created_at"}

\* each booking is stored under its own booking_id
StoreKeyedById == \A b \in DOMAIN bookings_db : bookings_db[b]["booking_id"] = b

\* one step keeps every booking of the store and its immutable fields
StoreOnlyGrows ==
    \A b \in DOMAIN bookings_db :
        /\ b \in DOMAIN bookings_db'
        /\ \A f \in ImmutableFields : bookings_db'[b][f] = bookings_db[b][f]

\* C32: in every reachable store, over every sequence of tool executions and passes,
\* each booking is stored under a key equal to its booking_id; no step removes a
\* booking; and no step changes the booking_id, service_type, customer_name,
\* customer_email or created_at of a stored booking.
C32_StoreInvariants == []StoreKeyedById /\ [][StoreOnlyGrows]_vars

C32_Witness ==
    /\ passes = 2
    /\ Cardinality(DOMAIN bookings_db) >= 2
    /\ UpdateExecuted
    /\ last_exec[1].arguments["booking_id"] \in DOMAIN last_exec[1].db_before
    /\ bookings_db[last_exec[1].arguments["booking_id"]]
          # last_exec[1].db_before[last_exec[1].arguments["booking_id"]]

\* model call #2 failed: the tools requested in round 1 have been executed
SecondCallFailed == pc = "FAILED" /\ Len(responses) = 2 /\ ~responses[2].ok

\* C33: when model call #2 fails after the requested tools have been executed, the
\* pass raises to its caller and the store is the store the last tool execution left,
\* with every booking of the start of the pass still in it; the step that ends the
\* pass leaves the store as it is, so that the next pass starts from that store.
C33_NoRollback ==
    /\ [](SecondCallFailed
            => /\ raised
               /\ last_exec # << >>
               /\ bookings_db = last_exec[1].out.db
               /\ DOMAIN db_at_start \subseteq DOMAIN bookings_db)
    /\ [][(SecondCallFailed /\ pc' = "START")
            => (bookings_db' = bookings_db /\ db_at_start' = bookings_db)]_vars

C33_Witness ==
    /\ SecondCallFailed
    /\ raised
    /\ passes = 2
    /\ db_at_start # EmptyArgs
    /\ Cardinality(DOMAIN bookings_db) > Cardinality(DOMAIN db_at_start)
    /\ \E b \in DOMAIN db_at_start : bookings_db[b] # db_at_start[b]

\* C34: when the completion of a request to send_message fails after the user's
\* message has been stored, the stored messages of the conversation are the ones of
\* before the request.
C34_FailedTurnRestoresMessages ==
    send_pc = "RAISED" => stored_messages = messages_before

====
